---- MODULE Spec2Model ----
(***************************************************************************)
(* A model of aipl's nested table data model (src/aipl/table.py): Column,  *)
(* SubColumn, LazyRow and Table.                                           *)
(*                                                                         *)
(* Python strings are sequences of one-character strings, so that          *)
(* str.startswith is computed and not looked up.  A Table is named by its  *)
(* place in the sequence tables.  A Column object is [id, obj]: obj holds  *)
(* its attributes and id names the object, <<t, n>> for the n-th Column    *)
(* that table t came to hold, so that "is" is equality of ids.  Dicts are  *)
(* never mutated and are kept by value as ordered sequences of items.  A   *)
(* raised exception is the value Raise(e).                                 *)
(***************************************************************************)
EXTENDS Integers, Sequences, FiniteSets, TLC

VARIABLES tables, last

vars == <<tables, last>>

(***************************************************************************)
(* Bounds of the model.                                                    *)
(***************************************************************************)
MaxTables == 2

(***************************************************************************)
(* Python values.                                                          *)
(***************************************************************************)
None == [tag |-> "None"]
PyInt(n) == [tag |-> "int", i |-> n]
PyStr(s) == [tag |-> "str", s |-> s]
PyDict(r) == [tag |-> "dict", row |-> r]
PyList(xs) == [tag |-> "list", items |-> xs]
TableRef(t) == [tag |-> "Table", id |-> t]
LazyRow(t, r) == [tag |-> "LazyRow", table |-> t, row |-> r]
Raise(e) == [tag |-> "raise", exc |-> e]

IsRaise(v) == v.tag = "raise"

\* str.startswith(prefix)
startswith(s, p) == Len(s) >= Len(p) /\ SubSeq(s, 1, Len(p)) = p

CURRENT_COLNAME == <<"_">>
PARENT_KEY == <<"_", "_", "p", "a", "r", "e", "n", "t">>
HIDDEN_PREFIX == <<"_">>
INTERNAL_PREFIX == <<"_", "_">>

(***************************************************************************)
(* dict: an ordered sequence of items [k, v] with distinct keys.           *)
(***************************************************************************)
Item(k, v) == [k |-> k, v |-> v]
keys(d) == [i \in DOMAIN d |-> d[i].k]
contains(d, k) == \E i \in DOMAIN d : d[i].k = k
\* d[k]
getitem(d, k) ==
    IF contains(d, k) THEN d[CHOOSE i \in DOMAIN d : d[i].k = k].v
    ELSE Raise("KeyError")
\* d.get(k)
dict_get(d, k) == IF contains(d, k) THEN getitem(d, k) ELSE None
\* del d[k]
delitem(d, k) == SelectSeq(d, LAMBDA it : it.k # k)
\* "if k in d: del d[k]" followed by "d[k] = v"
del_then_set(d, k, v) ==
    Append(IF contains(d, k) THEN delitem(d, k) ELSE d, Item(k, v))

(***************************************************************************)
(* Column and SubColumn.                                                   *)
(***************************************************************************)
\* "name or key": the empty string is falsy
name_or_key(name, key) == IF name # <<>> THEN name ELSE key

\* Column.__init__(key, name=''); a path key is a list of field names
Column(key, name) ==
    [cls |-> "Column", name |-> name_or_key(name, key), key |-> key,
     path |-> FALSE, origcol |-> None]
PathColumn(key, name) ==
    [cls |-> "Column", name |-> name_or_key(name, key), key |-> key,
     path |-> TRUE, origcol |-> None]
\* SubColumn.__init__(key, origcol): super().__init__(key, origcol.name)
SubColumn(key, origcol) ==
    [cls |-> "SubColumn", name |-> name_or_key(origcol.obj.name, key),
     key |-> key, path |-> FALSE, origcol |-> origcol]

hidden(c) == startswith(c.name, HIDDEN_PREFIX)

\* parent_row: self._row.get('__parent', None)
parent_row(row) == dict_get(row, PARENT_KEY)

\* obj.get(k) on the value a column is applied to.  Rows and nested rows are
\* dicts; of the other values only those without an attribute "get" reach a
\* column (a LazyRow is held under "__parent" alone, which is no column key).
obj_get(obj, k) ==
    IF obj.tag = "dict" THEN dict_get(obj.row, k) ELSE Raise("AttributeError")

\* obj[k] on the value a SubColumn is applied to, always a row
obj_getitem(obj, k) ==
    IF obj.tag = "dict" THEN getitem(obj.row, k) ELSE Raise("TypeError")

RECURSIVE walk_path(_, _, _)
\* one turn of the loop of Column.get_value: obj is row.get(k) already
walk_next(obj, key, i) ==
    IF IsRaise(obj) THEN obj
    ELSE IF obj = None THEN None
    ELSE walk_path(obj, key, i + 1)

\* the loop of Column.get_value over a path key, from position i
walk_path(obj, key, i) ==
    IF i > Len(key) THEN obj ELSE walk_next(obj_get(obj, key[i]), key, i)

Column_get_value(c, row) ==
    IF c.path THEN walk_path(row, c.key, 1) ELSE obj_get(row, c.key)

RECURSIVE get_value(_, _)

\* origcol.get_value(sub), sub being row[self.key] or the exception it raised
delegate(origcol, sub) ==
    IF IsRaise(sub) THEN sub ELSE get_value(origcol.obj, sub)

SubColumn_get_value(c, row) == delegate(c.origcol, obj_getitem(row, c.key))

\* c.get_value(row), dispatched on the class of c
get_value(c, row) ==
    IF c.cls = "SubColumn" THEN SubColumn_get_value(c, row)
    ELSE Column_get_value(c, row)

\* Table.get_column(name): a Column, None, or the IndexError of columns[-1]
\* on an empty column list
get_column(t, name) ==
    LET cs == tables[t].columns IN
    IF name = CURRENT_COLNAME
    THEN (IF Len(cs) = 0 THEN Raise("IndexError") ELSE cs[Len(cs)])
    ELSE IF \E i \in DOMAIN cs : cs[i].obj.name = name
         THEN cs[CHOOSE i \in DOMAIN cs :
                    /\ cs[i].obj.name = name
                    /\ \A j \in 1..(i - 1) : cs[j].obj.name # name]
         ELSE None

RECURSIVE LazyRow_getitem(_, _, _)
\* the body of the loop of LazyRow.__getitem__ once c = get_column(k) and
\* obj = parent_row are known
resolve(c, row, obj, k) ==
    IF c = Raise("IndexError") THEN c
    ELSE IF c # None THEN get_value(c.obj, PyDict(row))
    ELSE IF obj = None THEN Raise("KeyError")
    ELSE IF obj.tag # "LazyRow" THEN Raise("AttributeError")
    ELSE LazyRow_getitem(obj.table, obj.row, k)

\* LazyRow.__getitem__(k) of LazyRow(t, row)
LazyRow_getitem(t, row, k) == resolve(get_column(t, k), row, parent_row(row), k)

(***************************************************************************)
(* Table: [rows, columns, parent, scalar]; parent is a table or 0 for None. *)
(***************************************************************************)
\* Table.colnames and Table.colkeys
colnames(tbl) == [i \in DOMAIN tbl.columns |-> tbl.columns[i].obj.name]
colkeys(tbl) == [i \in DOMAIN tbl.columns |-> tbl.columns[i].obj.key]
\* a mutant of current_col: columns[0]
first_col(tbl) == tbl.columns[1]

\* Table.current_col: columns[-1]; only used where the list is not empty
current_col(tbl) == tbl.columns[Len(tbl.columns)]

\* a mutant of has_scalar: "if self.scalar" for "if self.scalar is not None"
has_scalar_truthy(tbl) == tbl.scalar \notin {None, PyInt(0), PyStr(<<>>)}

\* "self.scalar is not None"
has_scalar(tbl) == tbl.scalar # None

RECURSIVE shape(_)
\* dims extended by the shape sub of the nested table
extend(dims, sub) == IF IsRaise(sub) THEN sub ELSE PyList(dims \o sub.items)

\* the dimensions of a table with rows and columns, firstrowval being
\* self.current_col.get_value(self.rows[0])
nested_dims(dims, firstrowval) ==
    IF IsRaise(firstrowval) THEN firstrowval
    ELSE IF firstrowval.tag = "Table" THEN extend(dims, shape(firstrowval.id))
    ELSE PyList(dims)

\* Table.shape: the list of dimensions, or the exception get_value raised
shape(t) ==
    IF has_scalar(tables[t]) THEN PyList(<<>>)
    ELSE IF Len(tables[t].rows) > 0 /\ Len(tables[t].columns) > 0
    THEN nested_dims(<<Len(tables[t].rows)>>,
                     get_value(current_col(tables[t]).obj,
                               PyDict(tables[t].rows[1])))
    ELSE PyList(<<Len(tables[t].rows)>>)

\* len(sh) of a shape or of the exception it raised
len(sh) == IF IsRaise(sh) THEN sh ELSE PyInt(Len(sh.items))

\* Table.rank: len(self.shape)
rank(t) == len(shape(t))

\* str(v) of a value that is neither a primitive nor a Table: only its type
\* is kept ("{...}" for a dict, "<...>" for any other object)
str(v) ==
    IF v.tag = "dict" THEN PyStr(<<"{", "}">>) ELSE PyStr(<<"<", ">">>)

RECURSIVE asdict_rows(_, _)

\* the conversion of a nested Table of rank r
table_value(t, r) ==
    IF IsRaise(r) THEN r
    ELSE IF r = PyInt(0) THEN tables[t].scalar
    ELSE asdict_rows(t, 1)

\* the value conversion of LazyRow._asdict for a value that is not None
asdict_value(v) ==
    IF v.tag = "Table" THEN table_value(v.id, rank(v.id))
    ELSE IF v.tag \notin {"int", "float", "str"} THEN str(v)
    ELSE v

\* a mutant of is_absent: "if not v" for "if v is None"
is_falsy(v) == v \in {None, PyInt(0), PyStr(<<>>)}

\* "v is None"
is_absent(v) == v = None

\* whether _asdict passes over column i of tbl: "if c.hidden: if named_only
\* or c is not self._table.current_col: continue"
skipped(tbl, i, named_only) ==
    /\ hidden(tbl.columns[i].obj)
    /\ named_only \/ tbl.columns[i].id # current_col(tbl).id

\* a mutant of out_key: the column's own name, whether hidden or not
out_key_name(c) == c.name

\* the key _asdict gives a column it does not pass over
out_key(c) == IF hidden(c) THEN CURRENT_COLNAME ELSE c.name

\* "if k in d: del d[k]; d[k] = w", w being the converted value
store(d, k, w) == IF IsRaise(w) THEN w ELSE PyDict(del_then_set(d, k, w))

\* the rest of one turn of the loop once v = c.get_value(self._row) is known
keep(d, k, v) ==
    IF IsRaise(v) THEN v
    ELSE IF is_absent(v) THEN PyDict(d)
    ELSE store(d, k, asdict_value(v))

\* one turn of the loop of LazyRow._asdict, for column i: the dict d after
\* it, or the exception raised
asdict_step(t, row, named_only, i, d) ==
    IF skipped(tables[t], i, named_only) THEN PyDict(d)
    ELSE keep(d, out_key(tables[t].columns[i].obj),
              get_value(tables[t].columns[i].obj, PyDict(row)))

RECURSIVE asdict_loop(_, _, _, _, _)
\* the loop goes on from column i with the dict nxt, or ends with the
\* exception
asdict_next(t, row, named_only, i, nxt) ==
    IF IsRaise(nxt) THEN nxt ELSE asdict_loop(t, row, named_only, i, nxt.row)

\* the loop of LazyRow._asdict over the columns from position i, d the dict
\* built so far
asdict_loop(t, row, named_only, i, d) ==
    IF i > Len(tables[t].columns) THEN PyDict(d)
    ELSE asdict_next(t, row, named_only, i + 1,
                     asdict_step(t, row, named_only, i, d))

\* LazyRow._asdict(named_only) of LazyRow(t, row)
LazyRow_asdict(t, row, named_only) == asdict_loop(t, row, named_only, 1, <<>>)

\* the list head followed by the list rest, or the first exception
cons(head, rest) ==
    IF IsRaise(head) THEN head
    ELSE IF IsRaise(rest) THEN rest
    ELSE PyList(<<head>> \o rest.items)

\* [r._asdict() for r in v] for a table v without scalar, from row i
asdict_rows(t, i) ==
    IF i > Len(tables[t].rows) THEN PyList(<<>>)
    ELSE cons(LazyRow_asdict(t, tables[t].rows[i], FALSE), asdict_rows(t, i + 1))

\* Table._asdict
Table_asdict(t) ==
    IF has_scalar(tables[t]) THEN tables[t].scalar ELSE asdict_rows(t, 1)

(***************************************************************************)
(* Construction.  A call on a table is followed as st = [tbl, t, exc]: the *)
(* Table object, its place in tables, and the exception raised ("" for     *)
(* none).  A Column made for the call has no name yet (id <<0, 0>>) and    *)
(* gets one when the table keeps it.                                       *)
(***************************************************************************)
fresh(obj) == [id |-> <<0, 0>>, obj |-> obj]

\* a mutant of has_name: only the current column's name is compared
has_name_last(tbl, name) ==
    Len(tbl.columns) > 0 /\ tbl.columns[Len(tbl.columns)].obj.name = name

\* "col.name in self.colnames"
has_name(tbl, name) == \E i \in DOMAIN tbl.columns : colnames(tbl)[i] = name

\* Table.add_column(col).  No row of the model holds UNWORKING, so the
\* second assert only evaluates col.get_value(self.rows[0]).
add_column(st, col) ==
    IF startswith(col.obj.name, INTERNAL_PREFIX)
    THEN [st EXCEPT !.exc = "AssertionError"]
    ELSE LET probe == IF Len(st.tbl.rows) > 0
                      THEN get_value(col.obj, PyDict(st.tbl.rows[1]))
                      ELSE None
         IN  IF IsRaise(probe) THEN [st EXCEPT !.exc = probe.exc]
             ELSE IF has_name(st.tbl, col.obj.name) THEN st
             ELSE IF col.id # <<0, 0>>
             THEN [st EXCEPT !.tbl.columns = Append(@, col)]
             ELSE [st EXCEPT !.tbl.columns =
                       Append(@, [id |-> <<st.t, Len(st.tbl.columns) + 1>>,
                                  obj |-> col.obj])]

\* a mutant of is_internal: one underscore for two
is_internal_single(k) == startswith(k, HIDDEN_PREFIX)

\* "k.startswith('__')"
is_internal(k) == startswith(k, INTERNAL_PREFIX)

RECURSIVE add_new_columns_loop(_, _, _)
add_new_columns_loop(st, ks, i) ==
    IF i > Len(ks) \/ st.exc # "" THEN st
    ELSE IF ~is_internal(ks[i])
    THEN add_new_columns_loop(add_column(st, fresh(Column(ks[i], <<>>))), ks, i + 1)
    ELSE add_new_columns_loop(st, ks, i + 1)

\* Table.add_new_columns(row)
add_new_columns(st, row) == add_new_columns_loop(st, keys(row), 1)

RECURSIVE init_loop(_, _, _)
\* the loop of Table.__init__ over rows, from position i
init_loop(st, rows, i) ==
    IF i > Len(rows) \/ st.exc # "" THEN st
    ELSE IF rows[i].tag = "LazyRow"
    THEN init_loop([st EXCEPT !.tbl.rows = Append(@, rows[i].row)], rows, i + 1)
    ELSE IF rows[i].tag = "dict"
    THEN init_loop(add_new_columns([st EXCEPT !.tbl.rows = Append(@, rows[i].row)],
                                   rows[i].row),
                   rows, i + 1)
    ELSE [st EXCEPT !.exc = "TypeError"]

\* Table.__init__(rows, parent) of the table that will be tables[t]
Table_init(t, rows, parent) ==
    LET st == [tbl |-> [rows |-> <<>>, columns |-> <<>>, parent |-> parent,
                        scalar |-> None],
               t |-> t, exc |-> ""]
    IN  IF rows.tag \in {"list", "tuple"} THEN init_loop(st, rows.items, 1)
        ELSE [st EXCEPT !.tbl.scalar = rows]

\* a mutant of copy_column: the Column itself
copy_column_same(c) == c

\* copy(c) of a Column: a new object with the same attributes
copy_column(c) == fresh(c.obj)

RECURSIVE copy_loop(_, _, _)
copy_loop(st, cs, i) ==
    IF i > Len(cs) \/ st.exc # "" THEN st
    ELSE copy_loop(add_column(st, copy_column(cs[i])), cs, i + 1)

\* Table.__copy__ of tables[t]; the copy will be tables[new]
Table_copy(t, new) ==
    LET ret == copy_loop(Table_init(new, PyList(<<>>), 0), tables[t].columns, 1)
    IN  IF ret.exc # "" THEN ret
        ELSE [ret EXCEPT !.tbl.rows = <<>>, !.tbl.scalar = tables[t].scalar]

(***************************************************************************)
(* The operations.  last is the latest call, its arguments and what it     *)
(* returned or raised.  A table whose constructor raised is never seen by  *)
(* the caller.                                                             *)
(***************************************************************************)
Init ==
    /\ tables = <<>>
    /\ last = [op |-> "none"]

\* Table(rows)
NewTable(rows) ==
    /\ LET st == Table_init(Len(tables) + 1, rows, 0) IN
       IF st.exc = ""
       THEN /\ tables' = Append(tables, st.tbl)
            /\ last' = [op |-> "Table", rows |-> rows,
                        ret |-> TableRef(Len(tables) + 1)]
       ELSE /\ UNCHANGED tables
            /\ last' = [op |-> "Table", rows |-> rows, ret |-> Raise(st.exc)]

\* tables[t].add_column(col) with a Column object made for the call
AddColumn(t, obj) ==
    /\ LET st == add_column([tbl |-> tables[t], t |-> t, exc |-> ""], fresh(obj))
       IN  /\ tables' = [tables EXCEPT ![t] = st.tbl]
           /\ last' = [op |-> "add_column", t |-> t, col |-> obj,
                       ret |-> IF st.exc = "" THEN None ELSE Raise(st.exc)]

\* copy(tables[t])
CopyTable(t) ==
    /\ LET st == Table_copy(t, Len(tables) + 1) IN
       IF st.exc = ""
       THEN /\ tables' = Append(tables, st.tbl)
            /\ last' = [op |-> "copy", t |-> t, ret |-> TableRef(Len(tables) + 1)]
       ELSE /\ UNCHANGED tables
            /\ last' = [op |-> "copy", t |-> t, ret |-> Raise(st.exc)]

\* tables[t][i][k]: Table.__getitem__ then LazyRow.__getitem__
Lookup(t, i, k) ==
    /\ i \in DOMAIN tables[t].rows
    /\ last' = [op |-> "getitem", t |-> t, i |-> i, k |-> k,
                ret |-> LazyRow_getitem(t, tables[t].rows[i], k)]
    /\ UNCHANGED tables

\* tables[t][i]._asdict(named_only)
AsDict(t, i, named_only) ==
    /\ i \in DOMAIN tables[t].rows
    /\ last' = [op |-> "_asdict", t |-> t, i |-> i, named_only |-> named_only,
                ret |-> LazyRow_asdict(t, tables[t].rows[i], named_only)]
    /\ UNCHANGED tables

\* tables[t].shape, tables[t].rank and tables[t]._asdict()
Inspect(t) ==
    /\ last' = [op |-> "inspect", t |-> t, shape |-> shape(t), rank |-> rank(t),
                asdict |-> Table_asdict(t)]
    /\ UNCHANGED tables

(***************************************************************************)
(* Inputs.                                                                 *)
(***************************************************************************)
ka == <<"a">>
kb == <<"b">>
kc == <<"c">>
kh == <<"_", "h">>
ks == <<"s">>
kx == <<"_", "_", "x">>

Tables == 1..Len(tables)

\* every row of table t as a LazyRow, in order: list(tables[t])
lazyrows(t) == [i \in DOMAIN tables[t].rows |-> LazyRow(t, tables[t].rows[i])]

rowA == <<Item(ka, PyInt(1)), Item(kb, PyInt(0))>>
rowB == <<Item(PARENT_KEY, None), Item(kb, PyStr(<<>>)), Item(kh, PyInt(1)),
          Item(ka, PyInt(2))>>

\* Arguments of Table(): lists of mappings with overlapping keys, the rows
\* of an existing table, a list holding a non-row, and scalars
StructInputs ==
    {PyList(<<>>), PyInt(5), None, PyList(<<PyDict(rowA), PyInt(5)>>),
     PyList(<<PyDict(rowA)>>), PyList(<<PyDict(rowA), PyDict(rowB)>>),
     PyList(<<PyDict(rowB), PyDict(rowA)>>)}
    \cup {PyList(lazyrows(t)) : t \in Tables}

\* Columns handed to add_column: a new name, a reserved name, and a name
\* most tables already have, under another key
StructColumns == {Column(kc, <<>>), Column(kx, <<>>), Column(ka, kb)}

Next ==
    \/ /\ Len(tables) < MaxTables
       /\ \E rows \in StructInputs : NewTable(rows)
    \/ \E t \in Tables, obj \in StructColumns : AddColumn(t, obj)
    \/ /\ Len(tables) < MaxTables
       /\ \E t \in Tables : CopyTable(t)

Spec == Init /\ [][Next]_vars

(***************************************************************************)
(* SpecScope: rows that carry a "__parent" LazyRow of an earlier table,    *)
(* SubColumns over a nested dict, and field lookup through LazyRow.        *)
(***************************************************************************)
MaxChain == 3

kz == <<"z">>

\* every LazyRow of every table
AllLazyRows == UNION {{LazyRow(t, tables[t].rows[i]) : i \in DOMAIN tables[t].rows}
                      : t \in Tables}

\* a table with columns a, c, b whose second row has neither a nor c
ancestorRows ==
    PyList(<<PyDict(<<Item(ka, PyInt(1)), Item(kc, PyInt(1))>>),
             PyDict(<<Item(kb, PyInt(0))>>)>>)

\* a table with columns s, b: the nested dict s is in the first row, missing
\* from the second and None in the third
nestedRows ==
    PyList(<<PyDict(<<Item(ks, PyDict(<<Item(ka, PyInt(1))>>)), Item(kb, PyInt(0))>>),
             PyDict(<<Item(kb, PyInt(1))>>),
             PyDict(<<Item(ks, None)>>)>>)

\* a table with columns b, a derived under the row context p; its first row
\* has no a
childRows(p) ==
    PyList(<<PyDict(<<Item(PARENT_KEY, p), Item(kb, PyInt(1))>>),
             PyDict(<<Item(ka, PyInt(2))>>)>>)

ScopeInputs == {ancestorRows, nestedRows} \cup {childRows(p) : p \in AllLazyRows}

\* a SubColumn named a and a path column named z, both reading a under s
ScopeColumns ==
    {SubColumn(ks, fresh(Column(ka, <<>>))), PathColumn(<<ks, ka>>, kz)}

ScopeNames == {ka, kb, kc, kz, CURRENT_COLNAME}

NextScope ==
    \/ /\ Len(tables) < MaxChain
       /\ \E rows \in ScopeInputs : NewTable(rows)
    \/ \E t \in Tables, obj \in ScopeColumns : AddColumn(t, obj)
    \/ \E t \in Tables, i \in 1..3, k \in ScopeNames : Lookup(t, i, k)

SpecScope == Init /\ [][NextScope]_vars

(***************************************************************************)
(* SpecNest: scalar tables, tables whose cells hold earlier tables, hidden *)
(* columns, and the readers shape, rank and _asdict.                       *)
(***************************************************************************)
MaxNest == 3

NestScalars == {PyInt(0), None}

\* columns a, _h: the current column is hidden and the second row lacks it
hiddenLast ==
    PyList(<<PyDict(<<Item(ka, PyInt(0)), Item(kh, PyInt(1))>>),
             PyDict(<<Item(ka, PyStr(<<>>))>>)>>)

\* columns _h, a, b: the hidden column is not the current one; a is None and
\* b is a dict
hiddenFirst ==
    PyList(<<PyDict(<<Item(kh, PyInt(1)), Item(ka, None),
                      Item(kb, PyDict(<<Item(ka, PyInt(1))>>))>>)>>)

\* columns a, b: both hold tables in the first row, the second row holds
\* another table in b
cells(t, u) ==
    PyList(<<PyDict(<<Item(ka, TableRef(t)), Item(kb, TableRef(u))>>),
             PyDict(<<Item(kb, TableRef(t))>>)>>)

\* one hidden column, holding a table only in the second row
cellHidden(t) ==
    PyList(<<PyDict(<<Item(kh, PyInt(1))>>), PyDict(<<Item(kh, TableRef(t))>>)>>)

NestInputs ==
    NestScalars \cup {PyList(<<>>), hiddenLast, hiddenFirst}
    \cup {cells(t, u) : <<t, u>> \in {p \in Tables \X Tables : p[1] <= p[2]}}
    \cup {cellHidden(t) : t \in Tables}

NextNest ==
    \/ /\ Len(tables) < MaxNest
       /\ \E rows \in NestInputs : NewTable(rows)
    \/ \E t \in Tables, i \in 1..2, named_only \in BOOLEAN : AsDict(t, i, named_only)
    \/ \E t \in Tables : Inspect(t)

SpecNest == Init /\ [][NextNest]_vars

(***************************************************************************)
(* Claims about construction, add_column and structural copy (Spec).       *)
(***************************************************************************)
IsMappingList(v) ==
    v.tag = "list" /\ \A i \in DOMAIN v.items : v.items[i].tag = "dict"

distinct(xs) == \A i, j \in DOMAIN xs : xs[i] = xs[j] => i = j

\* the places <<row, position>> where key k occurs in a list of mappings
Occurrences(items, k) ==
    {<<i, j>> \in UNION {{i} \X DOMAIN items[i].row : i \in DOMAIN items} :
        items[i].row[j].k = k}

Before(p, q) == p[1] < q[1] \/ (p[1] = q[1] /\ p[2] < q[2])

\* some occurrence of k precedes every occurrence of m
FirstSeenBefore(items, k, m) ==
    \E p \in Occurrences(items, k) : \A q \in Occurrences(items, m) : Before(p, q)

PublicKeys(items) ==
    {items[i].row[j].k : <<i, j>> \in
        UNION {{i} \X DOMAIN items[i].row : i \in DOMAIN items}}
    \ {k \in {items[i].row[j].k : <<i, j>> \in
                 UNION {{i} \X DOMAIN items[i].row : i \in DOMAIN items}} :
          startswith(k, INTERNAL_PREFIX)}

\* C1: a Table built from a list of N mappings has N rows, in input order,
\* and its column names are the distinct keys not starting with "__", each
\* once, in the order in which each key was first seen.
C1_ConstructionSchema ==
    (last.op = "Table" /\ IsMappingList(last.rows)) =>
        /\ last.ret.tag = "Table"
        /\ LET tbl == tables[last.ret.id]
               items == last.rows.items
               names == colnames(tbl)
           IN  /\ Len(tbl.rows) = Len(items)
               /\ \A i \in DOMAIN items : tbl.rows[i] = items[i].row
               /\ distinct(names)
               /\ {names[i] : i \in DOMAIN names} = PublicKeys(items)
               /\ \A i, j \in DOMAIN names :
                     i < j => FirstSeenBefore(items, names[i], names[j])

\* C1 witness: two mappings sharing the keys a and b in different orders, one
\* with an internal key, were made a table with columns b, _h, a.
C1_Witness ==
    /\ last.op = "Table"
    /\ last.rows = PyList(<<PyDict(rowB), PyDict(rowA)>>)
    /\ last.ret.tag = "Table"
    /\ colnames(tables[last.ret.id]) = <<kb, kh, ka>>
    /\ Len(tables[last.ret.id].rows) = 2

DistinctColumnNames == \A t \in Tables : distinct(colnames(tables[t]))

AddExistingIsNoOp ==
    (/\ last'.op = "add_column"
     /\ \E i \in DOMAIN tables[last'.t].columns :
           colnames(tables[last'.t])[i] = last'.col.name)
    => tables' = tables

\* C3: the column names of every table are pairwise distinct, and add_column
\* of a column whose name the table already has changes nothing: the column
\* list keeps its length, order and content.
C3_UniqueNamesNoOp == []DistinctColumnNames /\ [][AddExistingIsNoOp]_vars

\* C3 witness: add_column was called with a column named b and key a on a
\* table that has a column b, and the table still has its own b, key b.
C3_Witness ==
    /\ last.op = "add_column"
    /\ last.col = Column(ka, kb)
    /\ last.ret = None
    /\ \E i \in DOMAIN tables[last.t].columns :
          /\ tables[last.t].columns[i].obj.name = kb
          /\ tables[last.t].columns[i].obj.key = kb

ColumnIds(tbl) == {tbl.columns[i].id : i \in DOMAIN tbl.columns}

CopyResult ==
    (last.op = "copy") =>
        /\ last.ret.tag = "Table"
        /\ LET src == tables[last.t]
               new == tables[last.ret.id]
           IN  /\ last.ret.id # last.t
               /\ new.rows = <<>>
               /\ colnames(new) = colnames(src)
               /\ \A i \in DOMAIN new.columns :
                     new.columns[i].obj = src.columns[i].obj
               /\ ColumnIds(new) \cap ColumnIds(src) = {}

CopyFrame ==
    /\ last'.op = "copy" => \A t \in Tables : tables'[t] = tables[t]
    /\ last'.op = "add_column" =>
          \A t \in Tables \ {last'.t} : tables'[t] = tables[t]

\* C8: the structural copy of a table is a new table with no rows and the
\* source's column names in the source's order; its Column objects are
\* clones, none of them an object of the source; the copy and a later
\* add_column on the copy leave the source as it was.
C8_StructuralCopy == []CopyResult /\ [][CopyFrame]_vars

\* C8 witness: a table with two rows and three columns was copied.
C8_Witness ==
    /\ last.op = "copy"
    /\ last.ret.tag = "Table"
    /\ Len(tables[last.t].rows) = 2
    /\ Len(tables[last.t].columns) = 3
    /\ Len(tables[last.ret.id].columns) = 3

\* C9: a table whose scalar is set has no rows and no columns.
C9_ScalarExclusive ==
    \A t \in Tables :
        tables[t].scalar # None =>
            tables[t].rows = <<>> /\ tables[t].columns = <<>>

(***************************************************************************)
(* Claims about field lookup and SubColumn (SpecScope).                    *)
(***************************************************************************)
RECURSIVE Chain(_, _)
\* the row contexts from LazyRow(t, row) up its "__parent" links
Chain(t, row) ==
    <<[table |-> t, row |-> row]>>
    \o (IF parent_row(row).tag = "LazyRow"
        THEN Chain(parent_row(row).table, parent_row(row).row)
        ELSE <<>>)

ColumnNamed(t, k) ==
    tables[t].columns[CHOOSE i \in DOMAIN tables[t].columns :
                          tables[t].columns[i].obj.name = k]

\* C2: lookup of a name other than "_" returns get_value of the column of
\* that name on the nearest context of the chain whose table has one, and
\* raises KeyError exactly when no table of the chain has such a column.
C2_ScopeLookup ==
    (last.op = "getitem" /\ last.k # CURRENT_COLNAME) =>
        LET ch == Chain(last.t, tables[last.t].rows[last.i])
            hits == {n \in DOMAIN ch : has_name(tables[ch[n].table], last.k)}
        IN  /\ (last.ret = Raise("KeyError")) <=> (hits = {})
            /\ hits # {} =>
                  LET n == CHOOSE m \in hits : \A o \in hits : m <= o IN
                  last.ret = get_value(ColumnNamed(ch[n].table, last.k).obj,
                                       PyDict(ch[n].row))

\* C10: a SubColumn applied to a row gives origcol.get_value of the nested
\* row under its key, and absent when the key is missing or its value absent.
C10_SubColumnAbsent ==
    (/\ last.op = "getitem"
     /\ "obj" \in DOMAIN get_column(last.t, last.k)
     /\ get_column(last.t, last.k).obj.cls = "SubColumn")
    => LET c == get_column(last.t, last.k).obj
           sub == dict_get(tables[last.t].rows[last.i], c.key)
       IN  last.ret = IF sub = None THEN None ELSE get_value(c.origcol.obj, sub)

(***************************************************************************)
(* Claims about _asdict, shape and rank (SpecNest).                        *)
(***************************************************************************)
Indices(n) == [i \in 1..n |-> i]

\* the key under which a column shows in _asdict
ShownKey(c) == IF startswith(c.name, <<"_">>) THEN <<"_">> ELSE c.name

\* the columns that show: not hidden, or hidden, current and asked for
Retained(tbl, i, named_only) ==
    \/ ~startswith(tbl.columns[i].obj.name, <<"_">>)
    \/ ~named_only /\ i = Len(tbl.columns)

ValueAt(tbl, row, i) == get_value(tbl.columns[i].obj, PyDict(row))

\* C4 as stated: hidden columns never show with named_only, a hidden column
\* shows without named_only exactly when it is the current column, under
\* "_", and the other columns show under their names in column order.
C4_HiddenProjection ==
    (last.op = "_asdict" /\ last.ret.tag = "dict") =>
        LET tbl == tables[last.t]
            shown == SelectSeq(Indices(Len(tbl.columns)),
                               LAMBDA i : Retained(tbl, i, last.named_only))
        IN  keys(last.ret.row) =
                [j \in DOMAIN shown |-> ShownKey(tbl.columns[shown[j]].obj)]

\* C4 amended: the same of the columns whose value for the row is present.
C4_HiddenProjectionPresent ==
    (last.op = "_asdict" /\ last.ret.tag = "dict") =>
        LET tbl == tables[last.t]
            row == tbl.rows[last.i]
            shown == SelectSeq(Indices(Len(tbl.columns)),
                               LAMBDA i : /\ Retained(tbl, i, last.named_only)
                                          /\ ValueAt(tbl, row, i) # None)
        IN  /\ keys(last.ret.row) =
                  [j \in DOMAIN shown |-> ShownKey(tbl.columns[shown[j]].obj)]
            /\ last.named_only =>
                  \A j \in DOMAIN last.ret.row :
                      ~startswith(last.ret.row[j].k, <<"_">>)

\* C4 witness: the row {a: 0, _h: 1} of a table whose current column is _h
\* gave {a: 0, _: 1} without named_only.
C4_Witness ==
    /\ last.op = "_asdict"
    /\ ~last.named_only
    /\ colnames(tables[last.t]) = <<ka, kh>>
    /\ last.ret = PyDict(<<Item(ka, PyInt(0)), Item(CURRENT_COLNAME, PyInt(1))>>)

\* C5: of the columns _asdict retains, an absent value gives no entry, an
\* int or str stays as it is (0 and "" too), a nested Table of rank 0 gives
\* its scalar and one of rank >= 1 the list of its rows' _asdict().
C5_ValueConversion ==
    (last.op = "_asdict" /\ last.ret.tag = "dict") =>
        LET tbl == tables[last.t]
            row == tbl.rows[last.i]
            out == last.ret.row
        IN  \A i \in DOMAIN tbl.columns :
                Retained(tbl, i, last.named_only) =>
                    LET v == ValueAt(tbl, row, i)
                        k == ShownKey(tbl.columns[i].obj)
                    IN  /\ v = None => ~contains(out, k)
                        /\ v.tag \in {"int", "str"} => getitem(out, k) = v
                        /\ (v.tag = "Table" /\ rank(v.id) = PyInt(0)) =>
                              getitem(out, k) = tables[v.id].scalar
                        /\ (v.tag = "Table" /\ rank(v.id) # PyInt(0)) =>
                              getitem(out, k) =
                                  PyList([j \in DOMAIN tables[v.id].rows |->
                                             LazyRow_asdict(v.id, tables[v.id].rows[j],
                                                            FALSE)])

flatHiddenLast ==
    PyList(<<PyDict(<<Item(ka, PyInt(0)), Item(CURRENT_COLNAME, PyInt(1))>>),
             PyDict(<<Item(ka, PyStr(<<>>))>>)>>)

\* C5 witness: a row holding the two-row table hiddenLast under a and the
\* scalar table 0 under b gave {a: [{a: 0, _: 1}, {a: ""}], b: 0}.
C5_Witness ==
    /\ last.op = "_asdict"
    /\ last.ret = PyDict(<<Item(ka, flatHiddenLast), Item(kb, PyInt(0))>>)

\* C6: the shape of a table without scalar is its row count followed by the
\* shape of the Table held by the last column of the first row, if that is a
\* Table, and the row count alone otherwise; rank is the length of shape.
C6_Shape ==
    (last.op = "inspect" /\ tables[last.t].scalar = None) =>
        LET tbl == tables[last.t]
            n == Len(tbl.rows)
            nested == IF n > 0 /\ Len(tbl.columns) > 0
                      THEN ValueAt(tbl, tbl.rows[1], Len(tbl.columns))
                      ELSE None
        IN  /\ last.shape = PyList(<<n>> \o (IF nested.tag = "Table"
                                             THEN shape(nested.id).items
                                             ELSE <<>>))
            /\ last.rank = PyInt(Len(last.shape.items))

\* C6 witness: a table of two rows whose first row holds a two-row table
\* under a and an empty table under the current column b has shape [2, 0].
C6_Witness ==
    /\ last.op = "inspect"
    /\ last.shape = PyList(<<2, 0>>)
    /\ last.rank = PyInt(2)
    /\ LET v == dict_get(tables[last.t].rows[1], ka) IN
       v.tag = "Table" /\ shape(v.id) = PyList(<<2>>)

\* C7 as stated: a table made from any value that is not a list or tuple has
\* shape [], rank 0, and flattens to that value.
C7_ScalarTable ==
    (last.op = "Table" /\ last.rows.tag \notin {"list", "tuple"}) =>
        /\ last.ret.tag = "Table"
        /\ shape(last.ret.id) = PyList(<<>>)
        /\ rank(last.ret.id) = PyInt(0)
        /\ Table_asdict(last.ret.id) = last.rows

\* C7 amended: the same of any such value other than None.
C7_ScalarTableNotNone ==
    (last.op = "Table" /\ last.rows.tag \notin {"list", "tuple"}
     /\ last.rows # None) =>
        /\ last.ret.tag = "Table"
        /\ shape(last.ret.id) = PyList(<<>>)
        /\ rank(last.ret.id) = PyInt(0)
        /\ Table_asdict(last.ret.id) = last.rows

\* C7 witness: Table(0) has shape [] and flattens to 0.
C7_Witness ==
    /\ last.op = "Table"
    /\ last.rows = PyInt(0)
    /\ last.ret.tag = "Table"
    /\ shape(last.ret.id) = PyList(<<>>)
    /\ Table_asdict(last.ret.id) = PyInt(0)

====
